---- MODULE Spec2Model ----
(***************************************************************************)
(* Model of visualization/flow_rate.py: the simulation sweep               *)
(* (run_simulations), its event-log parser and sliding-window flow-rate    *)
(* estimator, and the exit-time cross-trial aligner (exit_rate_comp).      *)
(*                                                                         *)
(* Units.  Times are integers in milliseconds (0.025 s = 25).  Flow rates  *)
(* and means are exact rationals [kind, num, den]; kind "nan" is the value *)
(* numpy returns for the mean of an empty list, "unset" a key not yet      *)
(* stored.  A log line is the sequence of its whitespace-separated tokens; *)
(* a token is [kind, val] with kind "int" (text of an integer), "real"     *)
(* (text of a decimal number, val in milliseconds) or "junk".              *)
(*                                                                         *)
(* The plotting calls and the linear fit of main() change none of the      *)
(* state modelled here and are left out.  The two subprocesses are the     *)
(* environment: each returns an exit status, and the simulator may replace *)
(* the log on disk; neither touches config.toml.  The exit widths of a     *)
(* benchmark list are distinct.                                            *)
(***************************************************************************)
EXTENDS Integers, Sequences, FiniteSets, TLC

VARIABLES
    exit_width,      \* config["benchmarks"]["exitWidths"]
    pedestrians,     \* config["benchmarks"]["pedestrians"]
    config_doc,      \* the simulation section of config.toml on disk
    config_writes,   \* history: number of toml.dump calls so far
    written_since_read, \* history: config.toml written since the last log read
    benchmark_file,  \* the simulator's output log on disk (NoFile when absent)
    lines,           \* file.readlines() of the current trial
    simulations,     \* simulations[d] = [trials, flow_rate]
    i, j,            \* loop indices: configuration (1-based), trial (0-based)
    gen_rc, sim_rc,  \* exit status of the two subprocesses of the current trial
    flow_rates,      \* windowed flow-rate samples of the current trial
    times,           \* window start times of the current trial
    window_starts,   \* history: the values k taken by the window loop
    lower_bound, upper_bound, \* indices bracketing the stationary period
    max_exits, exits_step,    \* exit_rate_comp: locals of the current configuration
    average_times,   \* exit_rate_comp: ordered dict exit_count -> list of times
    comp_plot,       \* exit_rate_comp: plotted [exits, times, errors] per configuration
    error,           \* "none" or the exception that ended the program
    pc

vars == << exit_width, pedestrians, config_doc, config_writes, written_since_read,
           benchmark_file, lines, simulations, i, j, gen_rc, sim_rc, flow_rates,
           times, window_starts, lower_bound, upper_bound, max_exits, exits_step,
           average_times, comp_plot, error, pc >>

----------------------------------------------------------------------------
(* Program constants *)

\* run_simulations(config, rounds: int = 3); main() passes no rounds
Rounds == 3
\* dt = 0.025, in milliseconds
DtMillis == 25
\* the 10 of int(10 / dt): window duration in seconds
WindowSeconds == 10
\* the 1 of int(1 / dt): step duration in seconds
StepSeconds == 1
\* times >= 10, in seconds
StationaryLower == 10
\* times <= 45, in seconds
StationaryUpper == 45
\* max_exits // 20
CheckpointDivisor == 20

time_window_steps == (WindowSeconds * 1000) \div DtMillis
time_steps == (StepSeconds * 1000) \div DtMillis

----------------------------------------------------------------------------
(* Bounds of the model *)

\* number of configurations in the sweep
MaxConfigs == 2
\* longest simulator log, in lines
MaxLen == 441
\* longest log enumerated token by token for the parser
MaxLines == 2
\* most tokens on an enumerated line
MaxTokens == 3
\* largest population size given to exit_rate_comp
MaxPopulation == 45

----------------------------------------------------------------------------
(* Exact rational arithmetic for numpy's float results *)

RECURSIVE GCD(_, _)
GCD(a, b) == IF b = 0 THEN a ELSE GCD(b, a % b)

Abs(x) == IF x < 0 THEN -x ELSE x

Unset == [kind |-> "unset", num |-> 0, den |-> 1]
NaN   == [kind |-> "nan", num |-> 0, den |-> 1]

Rat(n, d) ==
    LET g == GCD(Abs(n), d)
    IN  [kind |-> "num", num |-> n \div g, den |-> d \div g]

RatAdd(x, y) ==
    IF x.kind = "nan" \/ y.kind = "nan" THEN NaN
    ELSE Rat(x.num * y.den + y.num * x.den, x.den * y.den)

RatSub(x, y) ==
    IF x.kind = "nan" \/ y.kind = "nan" THEN NaN
    ELSE Rat(x.num * y.den - y.num * x.den, x.den * y.den)

RatMul(x, y) ==
    IF x.kind = "nan" \/ y.kind = "nan" THEN NaN
    ELSE Rat(x.num * y.num, x.den * y.den)

RatLeq(x, y) ==
    /\ x.kind = "num"
    /\ y.kind = "num"
    /\ x.num * y.den <= y.num * x.den

RECURSIVE RatSum(_)
RatSum(s) == IF s = << >> THEN Rat(0, 1) ELSE RatAdd(Head(s), RatSum(Tail(s)))

\* np.mean: the mean of an empty list is nan (with a RuntimeWarning, no exception)
Mean(s) ==
    IF s = << >> THEN NaN
    ELSE LET t == RatSum(s)
         IN  IF t.kind = "nan" THEN NaN ELSE Rat(t.num, t.den * Len(s))

\* np.std, kept exact as its square: the population variance (divides by
\* len, not len - 1); nan when the list is empty or holds a nan
StdSquared(s) ==
    LET m == Mean(s)
    IN  Mean([x \in 1..Len(s) |-> RatMul(RatSub(s[x], m), RatSub(s[x], m))])

----------------------------------------------------------------------------
(* Event-log parser: lines 94-99 *)

\* float(data[0]) succeeds on the text of an integer or of a decimal number
FloatOk(tok) == tok.kind \in {"int", "real"}
\* the value of float(tok), in milliseconds
FloatOf(tok) == IF tok.kind = "int" THEN tok.val * 1000 ELSE tok.val
\* int(data[1]) succeeds on the text of an integer only: int("1.5") raises
IntOkMutant(tok) == tok.kind \in {"int", "real"}
IntOk(tok) == tok.kind = "int"
IntOf(tok) == tok.val

\* The exception the loop body raises on one line (line.split() gives `line`),
\* in evaluation order: data[0], float, data[1], int.  Tokens after the second
\* are never looked at.
LineError(line) ==
    IF Len(line) = 0 THEN "IndexError"
    ELSE IF ~FloatOk(line[1]) THEN "ValueError"
    ELSE IF Len(line) < 2 THEN "IndexError"
    ELSE IF ~IntOk(line[2]) THEN "ValueError"
    ELSE "none"

\* Index of the first line on which the loop raises, Len + 1 when none does
FirstBad(ls) ==
    LET bad == {m \in 1..Len(ls) : LineError(ls[m]) # "none"}
    IN  IF bad = {} THEN Len(ls) + 1
        ELSE CHOOSE m \in bad : \A o \in bad : m <= o

\* The two lists as the loop leaves them: one entry per line before FirstBad
ParsedTimes(ls) == [m \in 1..(FirstBad(ls) - 1) |-> FloatOf(ls[m][1])]
ParsedExits(ls) == [m \in 1..(FirstBad(ls) - 1) |-> IntOf(ls[m][2])]
ParseError(ls) ==
    IF FirstBad(ls) > Len(ls) THEN "none" ELSE LineError(ls[FirstBad(ls)])

----------------------------------------------------------------------------
(* Sliding-window estimator: lines 101-127 *)

\* Python's range(start, stop, step) for step > 0, as a sequence
Range(start, stop, step) ==
    LET n == IF stop <= start THEN 0 ELSE (stop - start + step - 1) \div step
    IN  [m \in 1..n |-> start + (m - 1) * step]

\* np.where(cond)[0]: the 0-based indices at which the condition holds
IndicesAtLeast(xs, v) == {m - 1 : m \in {o \in 1..Len(xs) : xs[o] >= v}}
IndicesAtMost(xs, v)  == {m - 1 : m \in {o \in 1..Len(xs) : xs[o] <= v}}
SetMin(S) == CHOOSE x \in S : \A y \in S : x <= y
SetMax(S) == CHOOSE x \in S : \A y \in S : x >= y

\* the values of k in: for k in range(0, len(stationary_times) - time_window_steps + 1, time_steps)
WindowStartsMutant(n) == Range(0, n - time_window_steps, time_steps)
WindowStarts(n) == Range(0, n - time_window_steps + 1, time_steps)

\* exits = stationary_exits[k:k+time_window_steps];
\* flow_rate = (exits[-1] - exits[0]) / (time_window_steps * dt)
\* (sequences are 1-based: the slice is xs[k+1 .. k+time_window_steps])
WindowRate(xs, k) ==
    Rat((xs[k + time_window_steps] - xs[k + 1]) * 1000, time_window_steps * DtMillis)

----------------------------------------------------------------------------
(* The environment: what the external simulator leaves on disk *)

NoFile == [exists |-> FALSE, content |-> << >>]
File(ls) == [exists |-> TRUE, content |-> ls]

\* a well-formed line "<t> <e>", t in milliseconds
Line(t, e) == << [kind |-> "real", val |-> t], [kind |-> "int", val |-> e] >>

\* n ticks of dt from time 0, cumulative exits growing by num every den ticks
UniformLog(n, num, den) ==
    [m \in 1..n |-> Line((m - 1) * DtMillis, ((m - 1) * num) \div den)]

\* a log of two ticks 15 s apart: shorter than one window, inside [10, 45]
SparseLog == << Line(5000, 0), Line(20000, 1) >>

\* a log cut off in the middle of its fourth line
TruncatedLog == UniformLog(3, 1, 1) \o << << [kind |-> "real", val |-> 75] >> >>

\* the logs a simulator run that exits 0 may write
CompleteLogs == { UniformLog(MaxLen, 1, 1), SparseLog, UniformLog(3, 1, 1) }

\* the configuration list of a sweep of n configurations
BenchmarkWidths(n) == [k \in 1..n |-> 10 + 2 * k]
BenchmarkPedestrians(n) == [k \in 1..n |-> 25 * k + 20]

----------------------------------------------------------------------------
(* run_simulations: lines 60-141 *)

NoSummary == << Unset, Unset >>

d == exit_width[i]

SetTrial(sims, w, r, t) ==
    [sims EXCEPT ![w] = [@ EXCEPT !.trials = (r :> t) @@ @]]

\* the document toml.dump writes for configuration k
ConfigDocForMutant(k) == [exitWidth |-> exit_width[k], pedestrians |-> pedestrians[1]]
ConfigDocFor(k) == [exitWidth |-> exit_width[k], pedestrians |-> pedestrians[k]]

\* range(rounds) is exhausted after trial r
LastTrialMutant(r) == r + 2 >= Rounds
LastTrial(r) == r + 1 >= Rounds

Fail(e) == /\ error' = e
           /\ pc' = "failed"

\* lines 68-77: head of the configuration loop
WriteConfig ==
    /\ pc = "config"
    /\ config_doc' = ConfigDocFor(i)
    /\ config_writes' = config_writes + 1
    /\ written_since_read' = TRUE
    /\ simulations' = (d :> [trials |-> << >>, flow_rate |-> NoSummary]) @@ simulations
    /\ j' = 0
    /\ pc' = "generate"
    /\ UNCHANGED << exit_width, pedestrians, benchmark_file, lines, i, gen_rc, sim_rc,
                    flow_rates, times, window_starts, lower_bound, upper_bound,
                    max_exits, exits_step, average_times, comp_plot, error >>

\* line 81: subprocess.run without check=True returns whatever the exit status
RunGenerator ==
    /\ pc = "generate"
    /\ \E rc \in {0, 1} : gen_rc' = rc
    /\ sim_rc' = -1
    /\ pc' = "simulate"
    /\ UNCHANGED << exit_width, pedestrians, config_doc, config_writes,
                    written_since_read, benchmark_file, lines, simulations, i, j,
                    flow_rates, times, window_starts, lower_bound, upper_bound,
                    max_exits, exits_step, average_times, comp_plot, error >>

\* line 84: a run that exits 0 writes a complete log; one that fails leaves the
\* file as it was or leaves a truncated log
RunSimulator ==
    /\ pc = "simulate"
    /\ \/ /\ sim_rc' = 0
          /\ \E ls \in CompleteLogs : benchmark_file' = File(ls)
       \/ /\ sim_rc' = 1
          /\ benchmark_file' \in {benchmark_file, File(TruncatedLog)}
    /\ pc' = "read"
    /\ UNCHANGED << exit_width, pedestrians, config_doc, config_writes,
                    written_since_read, lines, simulations, i, j, gen_rc,
                    flow_rates, times, window_starts, lower_bound, upper_bound,
                    max_exits, exits_step, average_times, comp_plot, error >>

\* lines 87-88: open() raises FileNotFoundError when the log is absent
ReadLog ==
    /\ pc = "read"
    /\ IF benchmark_file.exists
       THEN /\ lines' = benchmark_file.content
            /\ written_since_read' = FALSE
            /\ pc' = "parse"
            /\ UNCHANGED error
       ELSE /\ Fail("FileNotFoundError")
            /\ UNCHANGED << lines, written_since_read >>
    /\ UNCHANGED << exit_width, pedestrians, config_doc, config_writes,
                    benchmark_file, simulations, i, j, gen_rc, sim_rc,
                    flow_rates, times, window_starts, lower_bound, upper_bound,
                    max_exits, exits_step, average_times, comp_plot >>

\* lines 90-99: the whole parsing loop; the entries appended before a bad line stay
ParseLog ==
    /\ pc = "parse"
    /\ simulations' = SetTrial(simulations, d, j,
                               [times |-> ParsedTimes(lines),
                                exits |-> ParsedExits(lines),
                                flow_rate |-> Unset])
    /\ IF ParseError(lines) = "none"
       THEN /\ pc' = "bounds"
            /\ UNCHANGED error
       ELSE Fail(ParseError(lines))
    /\ UNCHANGED << exit_width, pedestrians, config_doc, config_writes,
                    written_since_read, benchmark_file, lines, i, j, gen_rc, sim_rc,
                    flow_rates, times, window_starts, lower_bound, upper_bound,
                    max_exits, exits_step, average_times, comp_plot >>

trial == simulations[d].trials[j]

\* lines 102-105: [0][0] and [0][-1] raise IndexError on an empty index array
StationaryBounds ==
    /\ pc = "bounds"
    /\ LET ge == IndicesAtLeast(trial.times, StationaryLower * 1000)
           le == IndicesAtMost(trial.times, StationaryUpper * 1000)
       IN  IF ge = {} \/ le = {}
           THEN /\ Fail("IndexError")
                /\ UNCHANGED << lower_bound, upper_bound >>
           ELSE /\ lower_bound' = SetMin(ge)
                /\ upper_bound' = SetMax(le)
                /\ pc' = "estimate"
                /\ UNCHANGED error
    /\ UNCHANGED << exit_width, pedestrians, config_doc, config_writes,
                    written_since_read, benchmark_file, lines, simulations, i, j,
                    gen_rc, sim_rc, flow_rates, times, window_starts,
                    max_exits, exits_step, average_times, comp_plot >>

\* lines 108-127 and the loop step of line 79: the window loop runs over the
\* whole series, the trial's flow rate is np.mean of the samples
Estimate ==
    /\ pc = "estimate"
    /\ LET ks == WindowStarts(Len(trial.times))
           rates == [m \in 1..Len(ks) |-> WindowRate(trial.exits, ks[m])]
       IN  /\ window_starts' = ks
           /\ flow_rates' = rates
           /\ times' = [m \in 1..Len(ks) |-> ks[m] * DtMillis]
           /\ simulations' = SetTrial(simulations, d, j,
                                      [trial EXCEPT !.flow_rate = Mean(rates)])
    /\ IF LastTrial(j)
       THEN /\ pc' = "summary"
            /\ UNCHANGED j
       ELSE /\ pc' = "generate"
            /\ j' = j + 1
    /\ gen_rc' = -1
    /\ sim_rc' = -1
    /\ UNCHANGED << exit_width, pedestrians, config_doc, config_writes,
                    written_since_read, benchmark_file, lines, i,
                    lower_bound, upper_bound, max_exits, exits_step,
                    average_times, comp_plot, error >>

\* lines 130-131 and the loop step of line 68; simulations[d][j] raises KeyError
\* for a trial index that was never stored
Summarize ==
    /\ pc = "summary"
    /\ IF \A r \in 0..(Rounds - 1) : r \in DOMAIN simulations[d].trials
       THEN /\ LET rs == [m \in 1..Rounds |-> simulations[d].trials[m - 1].flow_rate]
               IN  simulations' = [simulations EXCEPT
                                     ![d].flow_rate = << Mean(rs), StdSquared(rs) >>]
            /\ IF i < Len(exit_width)
               THEN /\ i' = i + 1
                    /\ pc' = "config"
               ELSE /\ pc' = "done"
                    /\ UNCHANGED i
            /\ UNCHANGED error
       ELSE /\ Fail("KeyError")
            /\ UNCHANGED << simulations, i >>
    /\ UNCHANGED << exit_width, pedestrians, config_doc, config_writes,
                    written_since_read, benchmark_file, lines, j, gen_rc, sim_rc,
                    flow_rates, times, window_starts, lower_bound, upper_bound,
                    max_exits, exits_step, average_times, comp_plot >>

\* a state of main() with the given benchmark lists, results, lines read and
\* position; everything else as main() starts with
StateAt(widths, peds, sims, ls, p) ==
    /\ exit_width = widths
    /\ pedestrians = peds
    /\ config_doc = [exitWidth |-> 0, pedestrians |-> 0]
    /\ config_writes = 0
    /\ written_since_read = FALSE
    /\ benchmark_file = NoFile
    /\ lines = ls
    /\ simulations = sims
    /\ i = 1
    /\ j = 0
    /\ gen_rc = -1
    /\ sim_rc = -1
    /\ flow_rates = << >>
    /\ times = << >>
    /\ window_starts = << >>
    /\ lower_bound = 0
    /\ upper_bound = 0
    /\ max_exits = 0
    /\ exits_step = 0
    /\ average_times = << >>
    /\ comp_plot = << >>
    /\ error = "none"
    /\ pc = p

\* main() calls run_simulations on a benchmark list of n entries; no log on disk
SweepStart(n) ==
    StateAt(BenchmarkWidths(n), BenchmarkPedestrians(n), << >>, << >>, "config")

----------------------------------------------------------------------------
(* exit_rate_comp: lines 144-186 *)

\* max_exits // 20
ExitsStep(n) == n \div CheckpointDivisor

\* the values of exit_count in: for exit_count in range(0, max_exits + 1, exits_step)
Checkpoints(n, step) == Range(0, n + 1, step)

\* np.where(exits >= exit_count)[0][0], as a 1-based index; 0 when no entry
\* qualifies (the [0] then raises IndexError)
FirstIndexAtLeastMutant(xs, c) ==
    IF IndicesAtLeast(xs, c) = {} THEN 0 ELSE SetMax(IndicesAtLeast(xs, c)) + 1
FirstIndexAtLeast(xs, c) ==
    IF IndicesAtLeast(xs, c) = {} THEN 0 ELSE SetMin(IndicesAtLeast(xs, c)) + 1

\* line 17: main() passes the sweep's result to exit_rate_comp
CallExitRateComp ==
    /\ pc = "done"
    /\ i' = 1
    /\ pc' = "comp_begin"
    /\ UNCHANGED << exit_width, pedestrians, config_doc, config_writes,
                    written_since_read, benchmark_file, lines, simulations, j,
                    gen_rc, sim_rc, flow_rates, times, window_starts, lower_bound,
                    upper_bound, max_exits, exits_step, average_times, comp_plot,
                    error >>

\* lines 146-149
CompBegin ==
    /\ pc = "comp_begin"
    /\ max_exits' = pedestrians[i]
    /\ exits_step' = ExitsStep(pedestrians[i])
    /\ average_times' = << >>
    /\ pc' = "comp_trials"
    /\ UNCHANGED << exit_width, pedestrians, config_doc, config_writes,
                    written_since_read, benchmark_file, lines, simulations, i, j,
                    gen_rc, sim_rc, flow_rates, times, window_starts, lower_bound,
                    upper_bound, comp_plot, error >>

\* lines 151-161: range() raises ValueError on a step of 0; [0][0] raises
\* IndexError when a trial never reaches a checkpoint.  average_times keeps its
\* keys in insertion order, the order of the checkpoints.
CompTrials ==
    /\ pc = "comp_trials"
    /\ IF exits_step = 0
       THEN /\ Fail("ValueError")
            /\ UNCHANGED average_times
       ELSE LET cps == Checkpoints(max_exits, exits_step)
                tr(r) == simulations[d].trials[r]
                at(r, c) == FirstIndexAtLeast(tr(r).exits, c)
            IN  IF \E r \in 0..(Rounds - 1) : \E m \in 1..Len(cps) : at(r, cps[m]) = 0
                THEN /\ Fail("IndexError")
                     /\ UNCHANGED average_times
                ELSE /\ average_times' =
                           [m \in 1..Len(cps) |->
                              [exit_count |-> cps[m],
                               times |-> [r \in 1..Rounds |->
                                            tr(r - 1).times[at(r - 1, cps[m])]]]]
                     /\ pc' = "comp_average"
                     /\ UNCHANGED error
    /\ UNCHANGED << exit_width, pedestrians, config_doc, config_writes,
                    written_since_read, benchmark_file, lines, simulations, i, j,
                    gen_rc, sim_rc, flow_rates, times, window_starts, lower_bound,
                    upper_bound, max_exits, exits_step, comp_plot >>

\* lines 164-177 and the loop step of line 146; the times are in seconds here
CompAverage ==
    /\ pc = "comp_average"
    /\ LET ts(m) == [r \in 1..Rounds |-> Rat(average_times[m].times[r], 1000)]
       IN  comp_plot' = Append(comp_plot,
              [exits  |-> [m \in 1..Len(average_times) |-> average_times[m].exit_count],
               times  |-> [m \in 1..Len(average_times) |-> Mean(ts(m))],
               errors |-> [m \in 1..Len(average_times) |-> StdSquared(ts(m))]])
    /\ IF i < Len(exit_width)
       THEN /\ i' = i + 1
            /\ pc' = "comp_begin"
       ELSE /\ pc' = "comp_done"
            /\ UNCHANGED i
    /\ UNCHANGED << exit_width, pedestrians, config_doc, config_writes,
                    written_since_read, benchmark_file, lines, simulations, j,
                    gen_rc, sim_rc, flow_rates, times, window_starts, lower_bound,
                    upper_bound, max_exits, exits_step, average_times, error >>

----------------------------------------------------------------------------
(* Specification of main(): the sweep, then the cross-trial alignment *)

Init == \E n \in 1..MaxConfigs : SweepStart(n)

Next ==
    \/ WriteConfig
    \/ RunGenerator
    \/ RunSimulator
    \/ ReadLog
    \/ ParseLog
    \/ StationaryBounds
    \/ Estimate
    \/ Summarize
    \/ CallExitRateComp
    \/ CompBegin
    \/ CompTrials
    \/ CompAverage

Spec == Init /\ [][Next]_vars

----------------------------------------------------------------------------
(* The parser on every short log: run_simulations at line 90, first trial *)

\* the texts "3", "0.025" and "abc"
Tokens == { [kind |-> "int", val |-> 3], [kind |-> "real", val |-> 25],
            [kind |-> "junk", val |-> 0] }

\* tokens after the second, when a line has them: the text "7"
ExtraTokens(n) == [m \in 1..n |-> [kind |-> "int", val |-> 7]]

\* every line of at most MaxTokens tokens
LinesUpTo ==
    { << >> } \cup { << t >> : t \in Tokens }
    \cup { << t, u >> \o ExtraTokens(n) :
             t \in Tokens, u \in Tokens, n \in 0..(MaxTokens - 2) }

ShortLogs == UNION { [1..n -> LinesUpTo] : n \in 0..MaxLines }

InitParse ==
    \E ls \in ShortLogs :
        StateAt(BenchmarkWidths(1), BenchmarkPedestrians(1),
                BenchmarkWidths(1)[1] :> [trials |-> << >>, flow_rate |-> NoSummary],
                ls, "parse")

NextParse == ParseLog

SpecParse == InitParse /\ [][NextParse]_vars

----------------------------------------------------------------------------
(* The estimator on parsed logs: run_simulations at line 101, first trial *)

\* n entries `tick` apart from time `start`, exits growing by 1 every den entries
ParsedLog(n, start, tick, den) ==
    [times |-> [m \in 1..n |-> start + (m - 1) * tick],
     exits |-> [m \in 1..n |-> (m - 1) \div den],
     flow_rate |-> Unset]

ParsedLogs ==
    { ParsedLog(n, start, tick, den) :
        n \in 0..MaxLen, start \in {0, 10000}, tick \in {DtMillis, 1000}, den \in {1, 4} }

InitEstimator ==
    \E t \in ParsedLogs :
        StateAt(BenchmarkWidths(1), BenchmarkPedestrians(1),
                BenchmarkWidths(1)[1] :> [trials |-> (0 :> t), flow_rate |-> NoSummary],
                << >>, "bounds")

NextEstimator == StationaryBounds \/ Estimate

SpecEstimator == InitEstimator /\ [][NextEstimator]_vars

----------------------------------------------------------------------------
(* exit_rate_comp on the results of a sweep of one configuration whose logs   *)
(* are shorter than one window (so every flow rate is nan)                    *)

\* three-entry logs for a population of n: in time order or not, reaching n or
\* not, with exits non-decreasing or not
CompLog(ts, es) == [times |-> ts, exits |-> es, flow_rate |-> NaN]
CompLogs(n) ==
    { CompLog(<< 12000, 20000, 30000 >>, << 0, n \div 2, n >>),
      CompLog(<< 10000, 10000, 44000 >>, << n, n, n >>),
      CompLog(<< 12000, 20000, 30000 >>, << 0, 1, n - 1 >>),
      CompLog(<< 30000, 20000, 12000 >>, << 0, n \div 2, n >>),
      CompLog(<< 12000, 20000, 30000 >>, << 0, n, 3 >>) }

InitComp ==
    \E n \in 1..MaxPopulation :
        \E trs \in [0..(Rounds - 1) -> CompLogs(n)] :
            StateAt(BenchmarkWidths(1), << n >>,
                    BenchmarkWidths(1)[1] :> [trials |-> trs,
                                              flow_rate |-> << NaN, NaN >>],
                    << >>, "comp_begin")

NextComp == CompBegin \/ CompTrials \/ CompAverage

SpecComp == InitComp /\ [][NextComp]_vars

----------------------------------------------------------------------------
(* Properties *)

\* the positions of one trial once its times and exits are recorded
TrialRecorded == pc \in {"bounds", "estimate"}

\* C1: a trial whose pedestrian-placement generator or simulator exited
\* non-zero halts the sweep: it never gets as far as recording times, exits or
\* a flow rate from the log on disk.
C1_FailureHaltsSweep ==
    TrialRecorded => (gen_rc = 0 /\ sim_rc = 0)

\* the first trial of the estimator specification; Estimate stores its flow rate
first_trial == simulations[exit_width[1]].trials[0]
Estimated == first_trial.flow_rate.kind # "unset"

\* exits[i] = i at uniform sample_interval spacing, at least one window long
ConstantRateLog(t) ==
    /\ Len(t.times) >= time_window_steps
    /\ \A m \in 1..Len(t.exits) : t.exits[m] = m - 1
    /\ \A m \in 1..(Len(t.times) - 1) : t.times[m + 1] - t.times[m] = DtMillis

\* C2: for a log with exits[i] = i at uniform sample_interval spacing, every
\* windowed flow-rate sample equals exactly 1/sample_interval people per second.
C2_ConstantRateSamples ==
    (Estimated /\ ConstantRateLog(first_trial)) =>
        \A m \in 1..Len(flow_rates) : flow_rates[m] = Rat(1000, DtMillis)

\* C3: the checkpoint loop of exit_rate_comp is never entered with a step of 0:
\* a population below 20 gets step 1 or is rejected before the loop.
C3_NoZeroStepLoop ==
    pc = "comp_trials" => exits_step # 0

\* C4: for a population of at least 20 the checkpoints start at 0, are spaced
\* population // 20 apart and end with the population size itself.
C4_CheckpointsReachPopulation ==
    (pc = "comp_average" /\ max_exits >= CheckpointDivisor) =>
        /\ average_times[1].exit_count = 0
        /\ \A m \in 1..(Len(average_times) - 1) :
              average_times[m + 1].exit_count - average_times[m].exit_count
                  = max_exits \div CheckpointDivisor
        /\ average_times[Len(average_times)].exit_count = max_exits

\* C5: a trial whose parsed log is shorter than one window never has a flow
\* rate stored, whatever its time values: the trial ends in a fatal error.
C5_ShortLogIsFatal ==
    \A w \in DOMAIN simulations : \A r \in DOMAIN simulations[w].trials :
        Len(simulations[w].trials[r].times) < time_window_steps =>
            simulations[w].trials[r].flow_rate.kind = "unset"

\* a line of exactly two tokens convertible to (real, integer)
ExactlyTwoConvertible(line) ==
    /\ Len(line) = 2
    /\ line[1].kind \in {"int", "real"}
    /\ line[2].kind = "int"

\* a line whose first two tokens are convertible to (real, integer)
FirstTwoConvertible(line) ==
    /\ Len(line) >= 2
    /\ line[1].kind \in {"int", "real"}
    /\ line[2].kind = "int"

\* the trial the parser specification fills
parsed == simulations[exit_width[1]].trials[0]

\* C6 as stated: every line that is not exactly two convertible tokens, lines
\* of more than two tokens included, makes parsing fail.
C6_ExactlyTwoTokens ==
    (pc # "parse" /\ \E m \in 1..Len(lines) : ~ExactlyTwoConvertible(lines[m]))
        => pc = "failed"

\* C6 amended: parsing fails at the first line with fewer than two tokens or
\* whose first two tokens are not convertible to (real, integer), with no entry
\* appended for that line; tokens after the second are ignored; when no line
\* fails, times and exits hold one entry per line, in line order.
C6_ParseFirstTwoTokens ==
    pc # "parse" =>
        LET bad == {m \in 1..Len(lines) : ~FirstTwoConvertible(lines[m])}
        IN  /\ Len(parsed.times) = Len(parsed.exits)
            /\ \A m \in 1..Len(parsed.times) :
                  /\ parsed.times[m] = FloatOf(lines[m][1])
                  /\ parsed.exits[m] = lines[m][2].val
            /\ bad # {} => /\ pc = "failed"
                           /\ error \in {"IndexError", "ValueError"}
                           /\ \A m \in bad : Len(parsed.times) < m
            /\ bad = {} => /\ pc = "bounds"
                           /\ Len(parsed.times) = Len(lines)

\* a line of three tokens was parsed and its entry appended
C6_Witness ==
    /\ pc = "bounds"
    /\ Len(lines) = 2
    /\ Len(lines[2]) = 3
    /\ Len(parsed.times) = 2

\* C7 as stated: the configuration document is written before every trial,
\* between the previous trial's log read and the trial's generator run.
C7_WriteBeforeEveryTrial ==
    pc = "generate" => written_since_read

\* C7 amended: the document is written once per configuration, before that
\* configuration's first trial; whenever a trial's generator or simulator is
\* invoked it carries that configuration's exitWidth and pedestrians.
C7_WriteOncePerConfiguration ==
    pc \in {"generate", "simulate"} =>
        /\ config_doc.exitWidth = exit_width[i]
        /\ config_doc.pedestrians = pedestrians[i]
        /\ config_writes = i
        /\ (j = 0 /\ pc = "generate") => written_since_read

\* the second trial of the second configuration starts with no write since
\* the last log read
C7_Witness ==
    /\ pc = "generate"
    /\ i = 2
    /\ j = 1
    /\ ~written_since_read

InSweep == pc \in {"config", "generate", "simulate", "read", "parse", "bounds",
                   "estimate", "summary"}

HasAllTrials(w) ==
    /\ DOMAIN simulations[w].trials = 0..(Rounds - 1)
    /\ \A r \in 0..(Rounds - 1) :
          /\ simulations[w].trials[r].flow_rate.kind # "unset"
          /\ Len(simulations[w].trials[r].times) = Len(simulations[w].trials[r].exits)

\* C8: a configuration's summary is stored only when it holds exactly `rounds`
\* Trial Results, one per trial index, each with times, exits and a flow rate;
\* configurations are processed in list order, every trial of one completing
\* before the first trial of the next begins.
C8_RoundsTrialsPerSummary ==
    /\ \A w \in DOMAIN simulations :
          simulations[w].flow_rate # NoSummary => HasAllTrials(w)
    /\ pc = "summary" => HasAllTrials(d)
    /\ InSweep =>
          \A k \in 1..Len(exit_width) :
              /\ k < i => /\ exit_width[k] \in DOMAIN simulations
                          /\ simulations[exit_width[k]].flow_rate # NoSummary
              /\ k > i => exit_width[k] \notin DOMAIN simulations
    /\ pc \in {"generate", "simulate", "read", "parse"} =>
          /\ DOMAIN simulations[d].trials = 0..(j - 1)
          /\ simulations[d].flow_rate = NoSummary

\* the first configuration is summarised, with a numeric mean, as the second begins
C8_Witness ==
    /\ pc = "config"
    /\ i = 2
    /\ simulations[exit_width[1]].flow_rate[1].kind = "num"
    /\ HasAllTrials(exit_width[1])

TimeOrdered(ts) == \A m \in 1..(Len(ts) - 1) : ts[m] <= ts[m + 1]

AllTrialsTimeOrdered ==
    \A r \in 0..(Rounds - 1) : TimeOrdered(simulations[d].trials[r].times)

\* C9: when every trial's log is time-ordered and reaches the largest
\* checkpoint, each trial's time per checkpoint is non-decreasing in the
\* checkpoint, and so is the sequence of mean times.
C9_MeanTimesNonDecreasing ==
    AllTrialsTimeOrdered =>
        /\ pc = "comp_average" =>
              \A m \in 1..(Len(average_times) - 1) : \A r \in 1..Rounds :
                  average_times[m].times[r] <= average_times[m + 1].times[r]
        /\ pc = "comp_done" =>
              \A m \in 1..(Len(comp_plot[1].times) - 1) :
                  RatLeq(comp_plot[1].times[m], comp_plot[1].times[m + 1])

\* time-ordered trials, one of them with exits that go down, and mean times
\* that rise somewhere
C9_Witness ==
    /\ pc = "comp_done"
    /\ AllTrialsTimeOrdered
    /\ \E r \in 0..(Rounds - 1) : simulations[d].trials[r].exits[3] < simulations[d].trials[r].exits[2]
    /\ \E m \in 1..(Len(comp_plot[1].times) - 1) :
          ~RatLeq(comp_plot[1].times[m + 1], comp_plot[1].times[m])

====
